---- MODULE Spec2Model ----
(***************************************************************************)
(* Model of the TeleSync local sync engine (local_sync_service.py) and of  *)
(* the part of the cloud catalog it reads (cloud_storage_service.py).      *)
(*                                                                         *)
(* One engine instance runs on one asyncio event loop.  Every action below *)
(* is the code executed between two suspension points (await) of that      *)
(* loop, or one step of the environment (uploader, local file system,      *)
(* process kill).                                                          *)
(***************************************************************************)
EXTENDS Integers, Sequences, FiniteSets, TLC

\* ---------------------------------------------------------------- bounds
NumPaths  == 1           \* distinct cloud paths the uploader uses
MaxMeta   == 1           \* records ever appended to metadata.json
MaxRetry  == 4           \* a pass starts only while every retry_count is below

\* ------------------------------------------------------ program constants
DefaultMaxConcurrent == 3     \* self.max_concurrent_downloads = 3
RetryLimit           == 3     \* if failed_info.get('retry_count', 0) >= 3

\* Paths names every remote_path of the model; the uploader of Spec uses the
\* first NumPaths of them, the catalog of SpecBurst all of them.
BurstFiles == DefaultMaxConcurrent + 1
Paths       == 1..BurstFiles
UploadPaths == 1..NumPaths
Absent == 0                   \* no local file / no dictionary key

\* records of metadata.json where a path may be uploaded again
MaxCatalog == MaxMeta + 1

\* the file uploaded under path p has SourceSize(p) bytes
SourceSize(p) == p
\* what the local destination of p may hold: nothing, a file of the uploaded
\* size, or a file of another size
LocalSizes(p) == {Absent, SourceSize(p), SourceSize(p) + 1}

Sizes == UNION {LocalSizes(p) : p \in Paths} \ {Absent}

VARIABLES
    services,                 \* the module global sync_service and its history
    manual,                   \* the pass run by the application's sync_now thread
    storage_type,             \* cloud_storage.storage_type after construction
    objects,                  \* size of the object stored at each cloud_path
    loop,                     \* where start_periodic_sync is ("off": not started)
    metadata,                 \* cloud_storage metadata.json: list of records
    localFiles,               \* size of the file at each local destination
    sync_state,               \* self.sync_state (in memory)
    disk,                     \* .sync_state.json
    sync_enabled,             \* self.sync_enabled
    max_concurrent_downloads, \* self.max_concurrent_downloads
    pc,                       \* where the engine's running coroutine is
    files_to_sync,            \* plan of the running pass
    task,                     \* state of each sync_with_semaphore task
    retry,                    \* local variables of retry_failed_downloads
    result,                   \* what the last finished operation returned
    events,                   \* notifications pushed to the web app
    hist                      \* history: bookkeeping for the properties

vars == <<services, manual, storage_type, objects, loop, metadata, localFiles, sync_state,
          disk, sync_enabled, max_concurrent_downloads, pc, files_to_sync,
          task, retry, result, events, hist>>

\* ------------------------------------------------------------ sync state
\* last_sync is None (NoTime) or a time.  Two times are told apart: Now(t) is
\* the time of a write made when last_sync held t, and differs from t.
NoTime == 0
Now(t) == IF t = 1 THEN 2 ELSE 1

\* failed_downloads is a dict: an insertion-ordered list of entries.
EmptyState ==
    [last_sync        |-> NoTime,
     synced_files     |-> [p \in Paths |-> Absent],
     failed_downloads |-> << >>,
     total_synced     |-> 0,
     total_size       |-> 0]

SyncedKeys(st) == {p \in Paths : st.synced_files[p] # Absent}
FailedKeys(st) == {st.failed_downloads[i].cloud_path :
                       i \in 1..Len(st.failed_downloads)}

\* failed_downloads.get(cloud_path, {}).get('retry_count', 0)
RetryCount(st, p) ==
    IF p \in FailedKeys(st)
    THEN (CHOOSE e \in {st.failed_downloads[i] :
                          i \in 1..Len(st.failed_downloads)} :
              e.cloud_path = p).retry_count
    ELSE 0

\* failed_downloads[cloud_path] = {..., 'retry_count': n}
FailedPut(fd, p, n) ==
    IF \E i \in 1..Len(fd) : fd[i].cloud_path = p
    THEN [i \in 1..Len(fd) |->
             IF fd[i].cloud_path = p
             THEN [cloud_path |-> p, retry_count |-> n] ELSE fd[i]]
    ELSE Append(fd, [cloud_path |-> p, retry_count |-> n])

\* del failed_downloads[cloud_path]
FailedDel(fd, p) == SelectSeq(fd, LAMBDA e : e.cloud_path # p)

\* ------------------------------------------------------- state file
NoFile == [kind |-> "none", data |-> EmptyState]
Torn   == [kind |-> "torn", data |-> EmptyState]

load_sync_state_Mut(d) == EmptyState
load_sync_state(d) == IF d.kind = "ok" THEN d.data ELSE EmptyState

save_sync_state(st) == [kind |-> "ok", data |-> st]

\* How one call of save_sync_state ends: the file is written ("ok"), open()
\* fails and the file stays as it was ("denied"), or the write fails after
\* open() truncated the file ("partial").
WriteOutcomes == {"ok", "denied", "partial"}

\* the state file after save_sync_state was called on state st
WriteFile_Skip(d, st, w) == d
WriteFile(d, st, w) ==
    CASE w = "ok"     -> save_sync_state(st)
      [] w = "denied" -> d
      [] OTHER        -> Torn

\* lines 90-91: `except Exception` logs the failed write; nothing is raised
SaveRaises_Mut(w) == w # "ok"
SaveRaises(w) == FALSE


\* ------------------------------------------------------- cloud catalog
FileRecord == [cloud_path : Paths, file_size : Sizes]

\* upload_to_local overwrites the stored object; save_metadata appends.
save_metadata(md, rec) == Append(md, rec)

\* setup_storage: "supabase" and "s3" when their credentials are configured,
\* "local" when asked for or when the credentials are missing.
Backends == {"supabase", "s3", "local"}

\* save_metadata and get_user_files use self.local_cloud_path / "metadata.json";
\* setup_local alone sets local_cloud_path, so with another backend both end
\* in their except clause (AttributeError).
HasMetadataFile(b) == b = "local"

\* upload_to_*: the object at cloud_path is overwritten (copy2, x-upsert, put)
PutObject(ob, p, size) == [ob EXCEPT ![p] = size]

\* download_from_*: the destination is overwritten with the stored object
GetObject_Mut(ob, lf, p) ==
    IF lf[p] = Absent THEN [lf EXCEPT ![p] = ob[p]] ELSE lf
GetObject(ob, lf, p) == [lf EXCEPT ![p] = ob[p]]

\* get_user_files: the owner's records, or [] when reading fails.
get_user_files_Mut(md, ok) == md
get_user_files(md, ok) == IF ok THEN md ELSE << >>

\* get_cloud_files: the records whose cloud_path is not in synced_files.
get_cloud_files_Mut(md, ok, st) ==
    SelectSeq(get_user_files(md, ok),
              LAMBDA f : f.cloud_path \notin FailedKeys(st))
get_cloud_files_Skip(md, ok, st) ==
    SelectSeq(get_user_files(md, ok),
              LAMBDA f : /\ f.cloud_path \notin SyncedKeys(st)
                         /\ f.cloud_path \notin FailedKeys(st))
get_cloud_files(md, ok, st) ==
    SelectSeq(get_user_files(md, ok),
              LAMBDA f : f.cloud_path \notin SyncedKeys(st))

\* line 215: `if not files_to_sync`
PlanEmpty_Mut(plan) == FALSE
PlanEmpty(plan) == plan = << >>

\* ------------------------------------------------------- sync_file
\* if local_file_path.exists() and local_size == cloud_size
LocalMatches_Mut(lf, f) == lf[f.cloud_path] # Absent
LocalMatches(lf, f) == lf[f.cloud_path] # Absent /\ lf[f.cloud_path] = f.file_size

\* lines 140-146: the local recheck records the file and returns True
MarkSyncedLocal(st, f, lf) ==
    [st EXCEPT !.synced_files[f.cloud_path] = lf[f.cloud_path]]

\* lines 152-167: a successful download
MarkSynced(st, p, size) ==
    [st EXCEPT !.synced_files[p]   = size,
               !.total_synced      = @ + 1,
               !.total_size        = @ + size,
               !.failed_downloads  = FailedDel(@, p)]

\* lines 181-188: a failed download
MarkFailed_Stamp(st, p) ==
    [st EXCEPT !.failed_downloads = FailedPut(@, p, RetryCount(st, p) + 1),
               !.last_sync = Now(@)]
MarkFailed(st, p) ==
    [st EXCEPT !.failed_downloads = FailedPut(@, p, RetryCount(st, p) + 1)]

\* ------------------------------------------------------- semaphore
InFlight_Leak == {i \in 1..Len(task) : task[i].pc # "waiting"}
InFlight == {i \in 1..Len(task) : task[i].pc \in {"downloading", "notifying"}}

\* asyncio.Semaphore(self.max_concurrent_downloads): a slot is free
SemaphoreFree_Mut == Cardinality(InFlight) <= max_concurrent_downloads
SemaphoreFree == Cardinality(InFlight) < max_concurrent_downloads

\* A sync_with_semaphore task.  pc: where it is; ok: what sync_file returned;
\* checked: the recheck of line 135 was reached; seen: the size it found at the
\* local destination (Absent: no file); get: whether
\* cloud_storage.download_file was called.
NewTask == [pc |-> "waiting", ok |-> FALSE, checked |-> FALSE,
            seen |-> Absent, get |-> FALSE]

NoResult == [op |-> "none", status |-> "none", total |-> 0,
             successful |-> 0, failed |-> 0]

\* what download_file(cloud_path p, destination of p) returned
\* (before: what the destination held when the call was made)
DownloadResult(p, ok, before) ==
    [op |-> "download", status |-> IF ok THEN "true" ELSE "false",
     total |-> 0, successful |-> 0, failed |-> 0, path |-> p,
     before |-> before]

NoRetry == [pos |-> 0, used |-> 0, total |-> 0, successful |-> 0]

\* The pass of the sync_now thread: its own call of sync_all_files on the same
\* engine, on its own event loop.  pc: "off" (not called), "fetching",
\* "running", "completing", "returned"; plan and task: its files_to_sync and
\* tasks; status: what the call returned.
NoManual == [pc |-> "off", plan |-> << >>, task |-> << >>, status |-> "none"]

\* a task of that pass; seen: the total_synced it loaded for `+= 1`
NewManualTask == [pc |-> "waiting", ok |-> FALSE, seen |-> 0]


\* ------------------------------------------------------- history
\* gained:    a record was uploaded since the last pass of this run read the
\*            catalog
\* prev:      "none": no pass has read the catalog and returned in this run
\*            of the process; "clean": when the last pass returned every
\*            listed file was in synced_files; "dirty": some file was not
\* idem:      value of prev when the running (or last) pass read the catalog,
\*            "none" also when a record was uploaded in between
\* fetch:     how the catalog read of the running (or last) pass ended
\* saves:     calls of save_sync_state made by the running pass
\* wfail:     a write of the state file failed in the running (or last) pass
\* nfail:     a notification of the running (or last) pass was not delivered
NoHist == [gained |-> FALSE, prev |-> "none", idem |-> "none",
           fetch |-> "none", saves |-> 0, wfail |-> FALSE, nfail |-> FALSE]

\* history after one call of save_sync_state that ended as w
Saved(h, w) == [h EXCEPT !.saves = @ + 1, !.wfail = @ \/ (w # "ok")]

\* ------------------------------------------------------- notify_web_app
\* One call posts the notification once.  d: the web app answered 200; ~d: a
\* timeout, a connection error or another status.
\* lines 276-280: the failure is logged; nothing is raised
NotifyRaises_Mut(d) == ~d
NotifyRaises(d) == FALSE

\* history after one call of notify_web_app whose delivery ended as d
Notified(h, d) == [h EXCEPT !.nfail = @ \/ ~d]

AllListedSynced(md, st) ==
    \A i \in 1..Len(md) : md[i].cloud_path \in SyncedKeys(st)

Cleanness(md, st) == IF AllListedSynced(md, st) THEN "clean" ELSE "dirty"

NoEvents == [file_synced |-> 0, sync_completed |-> 0]

\* lines 231-247: failed = len(results) - successful
PassResult_Mut(status, total, ok) ==
    [op |-> "pass", status |-> status, total |-> total,
     successful |-> ok, failed |-> total]
PassResult_Raised(status, total, ok) ==
    [op |-> "pass", status |-> "raised", total |-> total,
     successful |-> ok, failed |-> total - ok]
PassResult(status, total, ok) ==
    [op |-> "pass", status |-> status, total |-> total,
     successful |-> ok, failed |-> total - ok]

\* lines 284-293: the dictionary get_sync_status returns
StatusResult(st, en) ==
    [op |-> "status", status |-> "returned", total |-> st.total_synced,
     successful |-> 0, failed |-> Len(st.failed_downloads),
     last_sync |-> st.last_sync, total_size |-> st.total_size,
     sync_enabled |-> en]

RetryResult(status, total, ok) ==
    [op |-> "retry", status |-> status, total |-> total,
     successful |-> ok, failed |-> total - ok]

\* ------------------------------------------------------- get_sync_service
NumOwners  == 2          \* user ids asked for
NumRoots   == 2          \* local roots asked for
MaxCreated == 2          \* engines constructed for one (owner, root) pair

Owners == 1..NumOwners
Roots  == 1..NumRoots

\* lines 41-42: the engine keeps the user_id and local_sync_path it was
\* constructed with
Engine(u, r) == [user_id |-> u, local_sync_path |-> r]
NoEngine     == [user_id |-> 0, local_sync_path |-> 0]

\* global: the module global sync_service (NoEngine: None); created: engines
\* constructed so far for each pair; asked, returned: arguments and result of
\* the last call of get_sync_service
NoServices == [global   |-> NoEngine,
               created  |-> [e \in Owners \X Roots |-> 0],
               asked    |-> NoEngine,
               returned |-> NoEngine]

\* line 368: `if sync_service is None or sync_service.user_id != user_id`
NeedsNewService(g, u) == g = NoEngine \/ g.user_id # u

\* ------------------------------------------------------- initial state
Init ==
    /\ services = NoServices
    /\ manual = NoManual
    /\ storage_type = "local"
    /\ objects = [p \in Paths |-> Absent]
    /\ loop = "off"
    /\ metadata = << >>
    /\ localFiles = [p \in Paths |-> Absent]
    /\ sync_state = EmptyState
    /\ disk = NoFile
    /\ sync_enabled = TRUE
    /\ max_concurrent_downloads = DefaultMaxConcurrent
    /\ pc = "idle"
    /\ files_to_sync = << >>
    /\ task = << >>
    /\ retry = NoRetry
    /\ result = NoResult
    /\ events = NoEvents
    /\ hist = NoHist

\* ------------------------------------------------------- environment
\* cloud_storage.upload_file by the monitor: object written, record appended
\* (upload_file returns True; size: what the uploaded file holds; max: bound
\* on the records of metadata.json)
UploadFile(p, size, max) ==
    /\ pc = "idle"
    /\ Len(metadata) < max
    /\ objects' = PutObject(objects, p, size)
    /\ metadata' = IF HasMetadataFile(storage_type)
                   THEN save_metadata(metadata, [cloud_path |-> p,
                                                 file_size |-> size])
                   ELSE metadata
    /\ hist' = [hist EXCEPT !.gained = (hist.prev # "none")]
    /\ UNCHANGED <<localFiles, sync_state, disk, sync_enabled,
                   max_concurrent_downloads, pc, files_to_sync, task, retry,
                   result, events>>
    /\ UNCHANGED <<services, manual, storage_type, loop>>

Upload(p) == UploadFile(p, SourceSize(p), MaxMeta)

\* the user (or an abandoned transfer) creates, changes or removes a local file
LocalChange(p, s) ==
    /\ pc = "idle"
    /\ s # localFiles[p]
    /\ localFiles' = [localFiles EXCEPT ![p] = s]
    /\ UNCHANGED <<metadata, sync_state, disk, sync_enabled,
                   max_concurrent_downloads, pc, files_to_sync, task, retry,
                   result, events, hist>>
    /\ UNCHANGED <<services, manual, storage_type, objects, loop>>

enable_sync ==
    /\ pc = "idle"
    /\ ~sync_enabled
    /\ sync_enabled' = TRUE
    /\ UNCHANGED <<metadata, localFiles, sync_state, disk,
                   max_concurrent_downloads, pc, files_to_sync, task, retry,
                   result, events, hist>>
    /\ UNCHANGED <<services, manual, storage_type, objects, loop>>

disable_sync ==
    /\ pc = "idle"
    /\ sync_enabled
    /\ sync_enabled' = FALSE
    /\ UNCHANGED <<metadata, localFiles, sync_state, disk,
                   max_concurrent_downloads, pc, files_to_sync, task, retry,
                   result, events, hist>>
    /\ UNCHANGED <<services, manual, storage_type, objects, loop>>

\* ------------------------------------------------------- sync_all_files
\* lines 204-213: the call up to `await self.get_cloud_files()`
PassBegins ==
    /\ pc = "idle"
    /\ ~sync_enabled \/ \A p \in Paths : RetryCount(sync_state, p) < MaxRetry
    /\ events' = NoEvents
    /\ IF ~sync_enabled
       THEN /\ result' = PassResult("disabled", 0, 0)
            /\ pc' = pc
       ELSE /\ pc' = "fetching"
            /\ result' = NoResult
    /\ hist' = [hist EXCEPT !.idem = "none", !.fetch = "none",
                            !.saves = 0, !.wfail = FALSE, !.nfail = FALSE]
    /\ UNCHANGED <<metadata, localFiles, sync_state, disk, sync_enabled,
                   max_concurrent_downloads, files_to_sync, task, retry>>

\* sync_all_files called by the application (runOnce)
PassStart == PassBegins /\ UNCHANGED <<services, manual, storage_type, objects, loop>>

\* lines 213-228: the catalog read returns; the plan is made, tasks created
PassFetched(ok) ==
    /\ pc = "fetching"
    /\ ok => HasMetadataFile(storage_type)
    /\ LET plan == get_cloud_files(metadata, ok, sync_state)
           h    == [hist EXCEPT !.fetch = IF ok THEN "ok" ELSE "failed",
                                !.idem = IF hist.gained THEN "none"
                                         ELSE hist.prev,
                                !.gained = FALSE]
       IN  IF PlanEmpty(plan)
           THEN /\ result' = PassResult("no_new_files", 0, 0)
                /\ pc' = "idle"
                /\ hist' = [h EXCEPT !.prev = IF ok
                                              THEN Cleanness(metadata, sync_state)
                                              ELSE "none"]
                /\ UNCHANGED <<files_to_sync, task>>
           ELSE /\ files_to_sync' = plan
                /\ task' = [i \in 1..Len(plan) |-> NewTask]
                /\ pc' = "running"
                /\ hist' = h
                /\ UNCHANGED result
    /\ UNCHANGED <<metadata, localFiles, sync_state, disk, sync_enabled,
                   max_concurrent_downloads, retry, events>>
    /\ UNCHANGED <<services, manual, storage_type, objects, loop>>

\* sync_with_semaphore: a task gets a slot and runs sync_file up to its first
\* await (lines 123-150).  Waiters are woken in the order they were created.
TaskStart(i, exc, w) ==
    /\ pc = "running"
    /\ i \in 1..Len(task)
    /\ task[i].pc = "waiting"
    /\ \A j \in 1..(i - 1) : task[j].pc # "waiting"
    /\ SemaphoreFree
    /\ LET f == files_to_sync[i]
       IN  IF exc
           THEN /\ task' = [task EXCEPT ![i].pc = "done", ![i].ok = FALSE]
                /\ UNCHANGED <<sync_state, disk, hist>>
           ELSE IF LocalMatches(localFiles, f)
           THEN /\ sync_state' = MarkSyncedLocal(sync_state, f, localFiles)
                /\ disk' = WriteFile(disk, sync_state', w)
                /\ hist' = Saved(hist, w)
                /\ task' = [task EXCEPT ![i].pc = "done", ![i].ok = TRUE,
                                        ![i].checked = TRUE,
                                        ![i].seen = localFiles[f.cloud_path]]
           ELSE /\ task' = [task EXCEPT ![i].pc = "downloading",
                                        ![i].checked = TRUE,
                                        ![i].seen = localFiles[f.cloud_path],
                                        ![i].get = TRUE]
                /\ UNCHANGED <<sync_state, disk, hist>>
    /\ UNCHANGED <<metadata, localFiles, sync_enabled,
                   max_concurrent_downloads, pc, files_to_sync, retry,
                   result, events>>
    /\ UNCHANGED <<services, manual, storage_type, objects, loop>>

\* lines 150-167 / 181-191: download_file returns
DownloadDone(i, ok, w) ==
    /\ pc = "running"
    /\ i \in 1..Len(task)
    /\ task[i].pc = "downloading"
    /\ ok => objects[files_to_sync[i].cloud_path] # Absent
    /\ LET p == files_to_sync[i].cloud_path
       IN  IF ok
           THEN /\ localFiles' = GetObject(objects, localFiles, p)
                /\ sync_state' = MarkSynced(sync_state, p, localFiles'[p])
                /\ task' = [task EXCEPT ![i].pc = "notifying"]
           ELSE /\ sync_state' = MarkFailed(sync_state, p)
                /\ task' = [task EXCEPT ![i].pc = "done", ![i].ok = FALSE]
                /\ UNCHANGED localFiles
    /\ disk' = WriteFile(disk, sync_state', w)
    /\ hist' = Saved(hist, w)
    /\ UNCHANGED <<metadata, sync_enabled, max_concurrent_downloads, pc,
                   files_to_sync, retry, result, events>>
    /\ UNCHANGED <<services, manual, storage_type, objects, loop>>

\* lines 169-180: notify_web_app('file_synced') returns, the slot is released.
\* An exception raised by it would be caught at lines 193-195.
NotifyDone(i, d) ==
    /\ pc = "running"
    /\ i \in 1..Len(task)
    /\ task[i].pc = "notifying"
    /\ events' = [events EXCEPT !.file_synced = @ + 1]
    /\ task' = [task EXCEPT ![i].pc = "done", ![i].ok = ~NotifyRaises(d)]
    /\ hist' = Notified(hist, d)
    /\ UNCHANGED <<metadata, localFiles, sync_state, disk, sync_enabled,
                   max_concurrent_downloads, pc, files_to_sync, retry,
                   result>>
    /\ UNCHANGED <<services, manual, storage_type, objects, loop>>

\* lines 228-236: gather returns; last_sync is set and the state saved.
\* An exception raised here would end the pass in the handler of lines 256-258.
PassGathered(w) ==
    /\ pc = "running"
    /\ \A i \in 1..Len(task) : task[i].pc = "done"
    /\ sync_state' = [sync_state EXCEPT !.last_sync = Now(@)]
    /\ disk' = WriteFile(disk, sync_state', w)
    /\ hist' = Saved(hist, w)
    /\ IF SaveRaises(w)
       THEN /\ result' = PassResult("error", 0, 0)
            /\ pc' = "idle"
            /\ files_to_sync' = << >>
            /\ task' = << >>
       ELSE /\ pc' = "completing"
            /\ UNCHANGED <<files_to_sync, task, result>>
    /\ UNCHANGED <<metadata, localFiles, sync_enabled,
                   max_concurrent_downloads, retry, events>>
    /\ UNCHANGED <<services, manual, storage_type, objects, loop>>

\* lines 238-254: notify_web_app('sync_completed') returns; summary returned.
\* An exception raised by it would be caught at lines 256-258.
PassReturn(d) ==
    /\ pc = "completing"
    /\ events' = [events EXCEPT !.sync_completed = @ + 1]
    /\ result' = IF NotifyRaises(d)
                 THEN PassResult("error", 0, 0)
                 ELSE PassResult("completed", Len(files_to_sync),
                                 Cardinality({i \in 1..Len(task) : task[i].ok}))
    /\ pc' = "idle"
    /\ files_to_sync' = << >>
    /\ task' = << >>
    /\ hist' = [Notified(hist, d) EXCEPT
                    !.prev = Cleanness(metadata, sync_state), !.saves = 0]
    /\ UNCHANGED <<metadata, localFiles, sync_state, disk, sync_enabled,
                   max_concurrent_downloads, retry>>
    /\ UNCHANGED <<services, manual, storage_type, objects, loop>>


\* ------------------------------------------------------- retry_failed_downloads
\* The loop iterates the live failed_downloads dictionary.

\* first entry at or after pos whose retry_count is below the limit (0: none)
NextRetryPos_Mut(fd, pos) == IF pos > Len(fd) THEN 0 ELSE pos
RECURSIVE NextRetryPos(_, _)
NextRetryPos(fd, pos) ==
    IF pos > Len(fd) THEN 0
    ELSE IF fd[pos].retry_count >= RetryLimit THEN NextRetryPos(fd, pos + 1)
    ELSE pos

\* the record the catalog lists for cloud_path (0: none): next(f for f in ...)
FindRecord(files, p) ==
    LET idx == {i \in 1..Len(files) : files[i].cloud_path = p}
    IN  IF idx = {} THEN 0 ELSE CHOOSE i \in idx : \A j \in idx : i <= j

\* The for statement asks the dictionary iterator for its next item, after the
\* body handled entry r.pos and left the state st.  The iterator raises
\* RuntimeError when the dictionary changed size since the loop began.
RetryLoop(st, r) ==
    LET fd == st.failed_downloads
        n  == NextRetryPos(fd, r.pos + 1)
    IN  IF Len(fd) # r.used
        THEN /\ result' = RetryResult("exception", r.total, r.successful)
             /\ pc' = "idle"
             /\ retry' = NoRetry
        ELSE IF n = 0
        THEN /\ result' = RetryResult("completed", r.total, r.successful)
             /\ pc' = "idle"
             /\ retry' = NoRetry
        ELSE /\ pc' = "retry_fetch"
             /\ retry' = [r EXCEPT !.pos = n]
             /\ UNCHANGED result

\* lines 295-312: the call up to the first `await get_user_files`
RetryStart ==
    /\ pc = "idle"
    /\ events' = NoEvents
    /\ IF sync_state.failed_downloads = << >>
       THEN /\ result' = RetryResult("no_failed_downloads", 0, 0)
            /\ UNCHANGED <<pc, retry>>
       ELSE RetryLoop(sync_state,
                      [pos |-> 0, used |-> Len(sync_state.failed_downloads),
                       total |-> 0, successful |-> 0])
    /\ hist' = [hist EXCEPT !.idem = "none", !.fetch = "none",
                            !.saves = 0, !.wfail = FALSE, !.nfail = FALSE]
    /\ UNCHANGED <<metadata, localFiles, sync_state, disk, sync_enabled,
                   max_concurrent_downloads, files_to_sync, task>>
    /\ UNCHANGED <<services, manual, storage_type, objects, loop>>

\* lines 312-320: the catalog is read, sync_file runs up to its first await
RetryFetched(ok, exc, w) ==
    /\ pc = "retry_fetch"
    /\ ok => HasMetadataFile(storage_type)
    /\ LET p     == sync_state.failed_downloads[retry.pos].cloud_path
           files == get_user_files(metadata, ok)
           k     == FindRecord(files, p)
       IN  IF k = 0
           THEN /\ RetryLoop(sync_state, retry)
                /\ UNCHANGED <<sync_state, disk, hist>>
           ELSE IF exc
           THEN /\ RetryLoop(sync_state, [retry EXCEPT !.total = @ + 1])
                /\ UNCHANGED <<sync_state, disk, hist>>
           ELSE IF LocalMatches(localFiles, files[k])
           THEN /\ sync_state' = MarkSyncedLocal(sync_state, files[k], localFiles)
                /\ disk' = WriteFile(disk, sync_state', w)
                /\ UNCHANGED hist
                /\ RetryLoop(sync_state', [retry EXCEPT !.total = @ + 1,
                                                        !.successful = @ + 1])
           ELSE /\ pc' = "retry_download"
                /\ UNCHANGED <<sync_state, disk, hist, retry, result>>
    /\ UNCHANGED <<metadata, localFiles, sync_enabled,
                   max_concurrent_downloads, files_to_sync, task, events>>
    /\ UNCHANGED <<services, manual, storage_type, objects, loop>>

\* download_file returns inside the retried sync_file
RetryDownloaded(ok, w) ==
    /\ pc = "retry_download"
    /\ ok => objects[sync_state.failed_downloads[retry.pos].cloud_path] # Absent
    /\ LET p == sync_state.failed_downloads[retry.pos].cloud_path
       IN  IF ok
           THEN /\ localFiles' = GetObject(objects, localFiles, p)
                /\ sync_state' = MarkSynced(sync_state, p, localFiles'[p])
                /\ pc' = "retry_notify"
                /\ UNCHANGED <<retry, result>>
           ELSE /\ sync_state' = MarkFailed(sync_state, p)
                /\ RetryLoop(sync_state', [retry EXCEPT !.total = @ + 1])
                /\ UNCHANGED localFiles
    /\ disk' = WriteFile(disk, sync_state', w)
    /\ UNCHANGED <<metadata, sync_enabled, max_concurrent_downloads,
                   files_to_sync, task, events, hist>>
    /\ UNCHANGED <<services, manual, storage_type, objects, loop>>

\* notify_web_app('file_synced') returns inside the retried sync_file
RetryNotified(d) ==
    /\ pc = "retry_notify"
    /\ events' = [events EXCEPT !.file_synced = @ + 1]
    /\ RetryLoop(sync_state,
                 [retry EXCEPT !.total = @ + 1,
                               !.successful = IF NotifyRaises(d) THEN @ ELSE @ + 1])
    /\ hist' = Notified(hist, d)
    /\ UNCHANGED <<metadata, localFiles, sync_state, disk, sync_enabled,
                   max_concurrent_downloads, files_to_sync, task>>
    /\ UNCHANGED <<services, manual, storage_type, objects, loop>>

\* ------------------------------------------------------- process kill
\* save_sync_state opens the state file with mode 'w' (truncating it) and then
\* writes: a kill between the two leaves an empty or partial file.  A save is
\* under way only in a step that records an outcome.
SaveUnderWay ==
    IF pc = "running"
    THEN (\E i \in 1..Len(task) : task[i].pc = "downloading")
         \/ (\A i \in 1..Len(task) : task[i].pc = "done")
         \/ (\E i \in 1..Len(task) :
                task[i].pc = "waiting" /\ LocalMatches(localFiles, files_to_sync[i]))
    ELSE pc = "retry_download"

\* the process is killed and started again: __init__ loads the state file
CrashRestart(torn) ==
    /\ torn => SaveUnderWay
    /\ disk' = IF torn THEN Torn ELSE disk
    /\ sync_state' = load_sync_state(disk')
    /\ sync_enabled' = TRUE
    /\ pc' = "idle"
    /\ files_to_sync' = << >>
    /\ task' = << >>
    /\ retry' = NoRetry
    /\ result' = NoResult
    /\ events' = NoEvents
    /\ hist' = NoHist
    /\ UNCHANGED <<metadata, localFiles, max_concurrent_downloads>>
    /\ UNCHANGED <<services, manual, storage_type, objects, loop>>

\* ------------------------------------------------------- start_periodic_sync
\* loop: "off": start_periodic_sync is not running; "ready": at the head of
\* `while True`; "in_pass": awaiting sync_all_files; "sleeping": in the sleep
\* of line 340 after a pass; "skipped": in the same sleep after an iteration
\* that found sync disabled; "cooldown": in the sleep of line 345.
LoopPcs == {"off", "ready", "in_pass", "sleeping", "skipped", "cooldown"}

\* line 337: the iteration awaits a pass when sync is enabled
LoopRunsPass_Mut(en) == TRUE
LoopRunsPass(en) == en

\* lines 343-345: an exception of the iteration is logged, the loop sleeps
LoopAfterError_Mut == "off"
LoopAfterError == "cooldown"

\* lines 335-338: one iteration starts
LoopIterate ==
    /\ loop = "ready"
    /\ pc = "idle"
    /\ IF LoopRunsPass(sync_enabled)
       THEN /\ PassBegins
            /\ loop' = "in_pass"
       ELSE /\ loop' = "skipped"
            /\ UNCHANGED <<metadata, localFiles, sync_state, disk,
                           sync_enabled, max_concurrent_downloads, pc,
                           files_to_sync, task, retry, result, events, hist>>
    /\ UNCHANGED <<services, manual, storage_type, objects>>

\* lines 338-345: the awaited pass has returned; raised: an exception reaches
\* the except clause of the loop instead
LoopResume(raised) ==
    /\ loop = "in_pass"
    /\ pc = "idle"
    /\ loop' = IF raised THEN LoopAfterError ELSE "sleeping"
    /\ UNCHANGED <<services, manual, storage_type, objects, metadata,
                   localFiles, sync_state,
                   disk, sync_enabled, max_concurrent_downloads, pc,
                   files_to_sync, task, retry, result, events, hist>>

\* lines 340, 345: asyncio.sleep returns
TimerFires ==
    /\ loop \in {"sleeping", "skipped", "cooldown"}
    /\ loop' = "ready"
    /\ UNCHANGED <<services, manual, storage_type, objects, metadata,
                   localFiles, sync_state,
                   disk, sync_enabled, max_concurrent_downloads, pc,
                   files_to_sync, task, retry, result, events, hist>>

\* ------------------------------------------------------- sync_now thread
\* DesktopSyncApp.sync_now starts a thread that runs sync_all_files of the
\* same engine on an event loop of its own, with no lock.  The steps of that
\* thread interleave with the steps of the periodic loop's thread wherever
\* the interpreter switches threads: between the load and the store of
\* `total_synced += 1` (builds that switch between any two bytecodes), and
\* inside save_sync_state, where open() and every write of json.dump release
\* the interpreter lock.
ManualInFlight ==
    {i \in 1..Len(manual.task) :
         manual.task[i].pc \in {"downloading", "counting", "saving", "notifying"}}

\* a task of the thread is between lines 155 and 167 of sync_file
ManualMutating ==
    \E i \in 1..Len(manual.task) : manual.task[i].pc \in {"counting", "saving"}

ManualFrame ==
    UNCHANGED <<services, storage_type, objects, loop, metadata, sync_enabled,
                max_concurrent_downloads, pc, files_to_sync, task, retry,
                result, hist>>

\* lines 204-213 in the thread
ManualStart ==
    /\ manual.pc = "off"
    /\ manual' = IF sync_enabled
                 THEN [manual EXCEPT !.pc = "fetching"]
                 ELSE [manual EXCEPT !.pc = "returned", !.status = "disabled"]
    /\ ManualFrame
    /\ UNCHANGED <<localFiles, sync_state, disk, events>>

\* lines 213-228 in the thread
ManualFetched(ok) ==
    /\ manual.pc = "fetching"
    /\ ok => HasMetadataFile(storage_type)
    /\ LET plan == get_cloud_files(metadata, ok, sync_state)
       IN  manual' = IF PlanEmpty(plan)
                     THEN [manual EXCEPT !.pc = "returned",
                                         !.status = "no_new_files"]
                     ELSE [manual EXCEPT !.pc = "running", !.plan = plan,
                                         !.task = [i \in 1..Len(plan) |->
                                                       NewManualTask]]
    /\ ManualFrame
    /\ UNCHANGED <<localFiles, sync_state, disk, events>>

\* lines 123-150 in the thread (its semaphore is its own)
ManualTaskStart(i) ==
    /\ manual.pc = "running"
    /\ ~ManualMutating
    /\ manual.task[i].pc = "waiting"
    /\ \A j \in 1..(i - 1) : manual.task[j].pc # "waiting"
    /\ Cardinality(ManualInFlight) < max_concurrent_downloads
    /\ LET f == manual.plan[i]
       IN  IF LocalMatches(localFiles, f)
           THEN /\ sync_state' = MarkSyncedLocal(sync_state, f, localFiles)
                /\ disk' = WriteFile(disk, sync_state', "ok")
                /\ manual' = [manual EXCEPT !.task[i].pc = "done",
                                            !.task[i].ok = TRUE]
           ELSE /\ manual' = [manual EXCEPT !.task[i].pc = "downloading"]
                /\ UNCHANGED <<sync_state, disk>>
    /\ ManualFrame
    /\ UNCHANGED <<localFiles, events>>

\* lines 150-160 / 181-191 in the thread: download_file returns; on success
\* the synced_files entry is stored and total_synced is loaded
ManualDownloaded(i, ok) ==
    /\ manual.pc = "running"
    /\ ~ManualMutating
    /\ manual.task[i].pc = "downloading"
    /\ LET p == manual.plan[i].cloud_path
       IN  /\ ok => objects[p] # Absent
           /\ IF ok
              THEN /\ localFiles' = GetObject(objects, localFiles, p)
                   /\ sync_state' = [sync_state EXCEPT
                                         !.synced_files[p] = localFiles'[p]]
                   /\ manual' = [manual EXCEPT
                                     !.task[i].pc = "counting",
                                     !.task[i].seen = sync_state.total_synced]
                   /\ UNCHANGED disk
              ELSE /\ sync_state' = MarkFailed(sync_state, p)
                   /\ disk' = WriteFile(disk, sync_state', "ok")
                   /\ manual' = [manual EXCEPT !.task[i].pc = "done"]
                   /\ UNCHANGED localFiles
    /\ ManualFrame
    /\ UNCHANGED events

\* lines 160-167 in the thread: total_synced is stored, total_size and
\* failed_downloads updated; save_sync_state opens the file (truncating it)
ManualCounted(i) ==
    /\ manual.pc = "running"
    /\ i \in 1..Len(manual.task)
    /\ manual.task[i].pc = "counting"
    /\ LET p == manual.plan[i].cloud_path
       IN  sync_state' = [sync_state EXCEPT
                             !.total_synced     = manual.task[i].seen + 1,
                             !.total_size       = @ + localFiles[p],
                             !.failed_downloads = FailedDel(@, p)]
    /\ disk' = Torn
    /\ manual' = [manual EXCEPT !.task[i].pc = "saving"]
    /\ ManualFrame
    /\ UNCHANGED <<localFiles, events>>

\* lines 85-91 in the thread: json.dump ends.  When the other thread wrote
\* the file meanwhile the two writes are mixed (mixed: the file is no JSON).
ManualSaved(i, mixed) ==
    /\ manual.pc = "running"
    /\ i \in 1..Len(manual.task)
    /\ manual.task[i].pc = "saving"
    /\ mixed => disk # Torn
    /\ disk' = IF mixed THEN Torn ELSE save_sync_state(sync_state)
    /\ manual' = [manual EXCEPT !.task[i].pc = "notifying"]
    /\ ManualFrame
    /\ UNCHANGED <<localFiles, sync_state, events>>

\* lines 169-180 in the thread
ManualNotified(i) ==
    /\ manual.pc = "running"
    /\ ~ManualMutating
    /\ manual.task[i].pc = "notifying"
    /\ events' = [events EXCEPT !.file_synced = @ + 1]
    /\ manual' = [manual EXCEPT !.task[i].pc = "done", !.task[i].ok = TRUE]
    /\ ManualFrame
    /\ UNCHANGED <<localFiles, sync_state, disk>>

\* lines 228-236 in the thread
ManualGathered ==
    /\ manual.pc = "running"
    /\ \A i \in 1..Len(manual.task) : manual.task[i].pc = "done"
    /\ sync_state' = [sync_state EXCEPT !.last_sync = Now(@)]
    /\ disk' = WriteFile(disk, sync_state', "ok")
    /\ manual' = [manual EXCEPT !.pc = "completing"]
    /\ ManualFrame
    /\ UNCHANGED <<localFiles, events>>

\* lines 238-254 in the thread
ManualReturn ==
    /\ manual.pc = "completing"
    /\ events' = [events EXCEPT !.sync_completed = @ + 1]
    /\ manual' = [manual EXCEPT !.pc = "returned", !.status = "completed"]
    /\ ManualFrame
    /\ UNCHANGED <<localFiles, sync_state, disk>>

\* ------------------------------------------------------- get_sync_service
\* lines 365-370.  The engine state of the model is that of one engine and is
\* left alone.
get_sync_service(u, r) ==
    LET new == NeedsNewService(services.global, u)
        g   == IF new THEN Engine(u, r) ELSE services.global
    IN  /\ new => services.created[<<u, r>>] < MaxCreated
        /\ services' = [global   |-> g,
                        created  |-> IF new
                                     THEN [services.created EXCEPT
                                               ![<<u, r>>] = @ + 1]
                                     ELSE services.created,
                        asked    |-> Engine(u, r),
                        returned |-> g]
        /\ UNCHANGED <<manual, storage_type, objects, loop, metadata,
                       localFiles, sync_state, disk, sync_enabled,
                       max_concurrent_downloads, pc, files_to_sync, task,
                       retry, result, events, hist>>

\* ------------------------------------------------------- get_sync_status
\* lines 282-293: no await; reads the engine and returns
get_sync_status ==
    /\ pc = "idle"
    /\ result' = StatusResult(sync_state, sync_enabled)
    /\ UNCHANGED <<services, manual, storage_type, objects, loop, metadata,
                   localFiles, sync_state, disk, sync_enabled,
                   max_concurrent_downloads, pc, files_to_sync, task, retry,
                   events, hist>>

\* ------------------------------------------------------- download_file
\* cloud_storage.download_file called by the application for the object at p,
\* with the local destination of p.  ok: the transfer itself went through (the
\* service answered, the copy was written).  Without a stored object the
\* call returns False and writes nothing.
DownloadFile(p, ok) ==
    /\ pc = "idle"
    /\ LET done == ok /\ objects[p] # Absent
       IN  /\ localFiles' = IF done THEN GetObject(objects, localFiles, p)
                            ELSE localFiles
           /\ result' = DownloadResult(p, done, localFiles[p])
    /\ UNCHANGED <<services, manual, storage_type, objects, loop, metadata,
                   sync_state, disk,
                   sync_enabled, max_concurrent_downloads, pc, files_to_sync,
                   task, retry, events, hist>>

\* ------------------------------------------------------- delete_file
\* cloud_storage.delete_file(p) returns True: the stored object is removed
\* (unlink, DELETE, delete_object); metadata.json is not touched
DeleteFile(p) ==
    /\ pc = "idle"
    /\ objects[p] # Absent
    /\ objects' = [objects EXCEPT ![p] = Absent]
    /\ UNCHANGED <<services, manual, storage_type, loop, metadata, localFiles,
                   sync_state, disk, sync_enabled, max_concurrent_downloads,
                   pc, files_to_sync, task, retry, result, events, hist>>

\* get_user_files(user_id) as the application sees it with backend b
ListUserFiles(md, b) == get_user_files(md, HasMetadataFile(b))

\* ------------------------------------------------------- specification
\* The state file is on storage that takes every write, and the web app
\* answers every notification.
Next ==
    \/ \E p \in UploadPaths : Upload(p)
    \/ \E p \in UploadPaths : \E s \in LocalSizes(p) : LocalChange(p, s)
    \/ enable_sync
    \/ disable_sync
    \/ PassStart
    \/ \E ok \in BOOLEAN : PassFetched(ok)
    \/ \E i \in 1..Len(task), exc \in BOOLEAN : TaskStart(i, exc, "ok")
    \/ \E i \in 1..Len(task), ok \in BOOLEAN : DownloadDone(i, ok, "ok")
    \/ \E i \in 1..Len(task) : NotifyDone(i, TRUE)
    \/ PassGathered("ok")
    \/ PassReturn(TRUE)
    \/ RetryStart
    \/ \E ok \in BOOLEAN, exc \in BOOLEAN : RetryFetched(ok, exc, "ok")
    \/ \E ok \in BOOLEAN : RetryDownloaded(ok, "ok")
    \/ RetryNotified(TRUE)
    \/ \E torn \in BOOLEAN : CrashRestart(torn)

Spec == Init /\ [][Next]_vars


\* ------------------------------------------------------- burst of transfers
\* One engine whose catalog lists more files than there are slots, up to the
\* return of its first pass that ran transfers.
InitBurst ==
    /\ services = NoServices
    /\ manual = NoManual
    /\ storage_type = "local"
    /\ objects = [p \in Paths |-> SourceSize(p)]
    /\ loop = "off"
    /\ metadata = [i \in 1..BurstFiles |->
                      [cloud_path |-> i, file_size |-> SourceSize(i)]]
    /\ localFiles \in {[p \in Paths |-> IF p \in S THEN SourceSize(p) ELSE Absent] :
                          S \in SUBSET {1}}
    /\ sync_state = EmptyState
    /\ disk = NoFile
    /\ sync_enabled = TRUE
    /\ max_concurrent_downloads = DefaultMaxConcurrent
    /\ pc = "idle"
    /\ files_to_sync = << >>
    /\ task = << >>
    /\ retry = NoRetry
    /\ result = NoResult
    /\ events = NoEvents
    /\ hist = NoHist

NextBurst ==
    \/ (sync_state.last_sync = NoTime /\ PassStart)
    \/ \E ok \in BOOLEAN : PassFetched(ok)
    \/ \E i \in 1..Len(task), exc \in BOOLEAN : TaskStart(i, exc, "ok")
    \/ \E i \in 1..Len(task), ok \in BOOLEAN : DownloadDone(i, ok, "ok")
    \/ \E i \in 1..Len(task) : NotifyDone(i, TRUE)
    \/ PassGathered("ok")
    \/ PassReturn(TRUE)

SpecBurst == InitBurst /\ [][NextBurst]_vars

\* ------------------------------------------------------- failing writes
\* One engine run whose state file is on storage where any call of
\* save_sync_state may fail (read-only directory, full disk), up to the return
\* of its first pass that ran transfers.
NextWrite ==
    \/ \E p \in UploadPaths : Upload(p)
    \/ \E p \in UploadPaths : \E s \in LocalSizes(p) : LocalChange(p, s)
    \/ (sync_state.last_sync = NoTime /\ PassStart)
    \/ \E ok \in BOOLEAN : PassFetched(ok)
    \/ \E i \in 1..Len(task), exc \in BOOLEAN, w \in WriteOutcomes :
           TaskStart(i, exc, w)
    \/ \E i \in 1..Len(task), ok \in BOOLEAN, w \in WriteOutcomes :
           DownloadDone(i, ok, w)
    \/ \E i \in 1..Len(task) : NotifyDone(i, TRUE)
    \/ \E w \in WriteOutcomes : PassGathered(w)
    \/ PassReturn(TRUE)

SpecWrite == Init /\ [][NextWrite]_vars

\* ------------------------------------------------------- failing notifications
\* One engine run whose web app may fail to answer any notification, up to
\* the return of its first pass that ran transfers.
NextNotify ==
    \/ \E p \in UploadPaths : Upload(p)
    \/ \E p \in UploadPaths : \E s \in LocalSizes(p) : LocalChange(p, s)
    \/ (sync_state.last_sync = NoTime /\ PassStart)
    \/ \E ok \in BOOLEAN : PassFetched(ok)
    \/ \E i \in 1..Len(task), exc \in BOOLEAN : TaskStart(i, exc, "ok")
    \/ \E i \in 1..Len(task), ok \in BOOLEAN : DownloadDone(i, ok, "ok")
    \/ \E i \in 1..Len(task), d \in BOOLEAN : NotifyDone(i, d)
    \/ PassGathered("ok")
    \/ \E d \in BOOLEAN : PassReturn(d)

SpecNotify == Init /\ [][NextNotify]_vars

\* ------------------------------------------------------- perpetual mode
\* The engine as the desktop application runs it: start_periodic_sync is
\* running, files are uploaded, sync is switched off and on between passes,
\* and sync_all_files is called by hand while sync is off.  A download fails
\* at most MaxRetry - 1 times for one file.
InitPeriodic ==
    /\ services = NoServices
    /\ manual = NoManual
    /\ storage_type = "local"
    /\ objects = [p \in Paths |-> Absent]
    /\ loop = "ready"
    /\ metadata = << >>
    /\ localFiles = [p \in Paths |-> Absent]
    /\ sync_state = EmptyState
    /\ disk = NoFile
    /\ sync_enabled = TRUE
    /\ max_concurrent_downloads = DefaultMaxConcurrent
    /\ pc = "idle"
    /\ files_to_sync = << >>
    /\ task = << >>
    /\ retry = NoRetry
    /\ result = NoResult
    /\ events = NoEvents
    /\ hist = NoHist

\* the steps of the event loop: coroutines that can run do run, timers fire,
\* and every request ends (aiohttp's default timeout, timeout=10 of line 272)
LoopStep ==
    \/ LoopIterate
    \/ \E ok \in BOOLEAN : PassFetched(ok)
    \/ \E i \in 1..Len(task), exc \in BOOLEAN : TaskStart(i, exc, "ok")
    \/ \E i \in 1..Len(task), ok \in BOOLEAN :
           /\ ok \/ RetryCount(sync_state, files_to_sync[i].cloud_path)
                        < MaxRetry - 1
           /\ DownloadDone(i, ok, "ok")
    \/ \E i \in 1..Len(task) : NotifyDone(i, TRUE)
    \/ PassGathered("ok")
    \/ PassReturn(TRUE)
    \/ \E raised \in BOOLEAN : LoopResume(raised)
    \/ TimerFires

NextPeriodic ==
    \/ \E p \in UploadPaths : Upload(p)
    \/ enable_sync
    \/ disable_sync
    \/ (~sync_enabled /\ PassStart)
    \/ LoopStep

SpecPeriodic == InitPeriodic /\ [][NextPeriodic]_vars /\ WF_vars(LoopStep)

\* ------------------------------------------------------- two threads
\* The desktop application: the periodic loop runs on its thread and the
\* user presses "sync now" once, at any moment; each thread up to the return
\* of its first pass.
NextThreads ==
    \/ \E p \in UploadPaths : Upload(p)
    \/ (sync_state.last_sync = NoTime /\ LoopIterate)
    \/ \E ok \in BOOLEAN : PassFetched(ok)
    \/ \E i \in 1..Len(task) : TaskStart(i, FALSE, "ok")
    \/ \E i \in 1..Len(task), ok \in BOOLEAN : DownloadDone(i, ok, "ok")
    \/ \E i \in 1..Len(task) : NotifyDone(i, TRUE)
    \/ PassGathered("ok")
    \/ PassReturn(TRUE)
    \/ LoopResume(FALSE)
    \/ ManualStart
    \/ \E ok \in BOOLEAN : ManualFetched(ok)
    \/ \E i \in 1..Len(manual.task) : ManualTaskStart(i)
    \/ \E i \in 1..Len(manual.task), ok \in BOOLEAN : ManualDownloaded(i, ok)
    \/ \E i \in 1..Len(manual.task) : ManualCounted(i)
    \/ \E i \in 1..Len(manual.task), mixed \in BOOLEAN : ManualSaved(i, mixed)
    \/ \E i \in 1..Len(manual.task) : ManualNotified(i)
    \/ ManualGathered
    \/ ManualReturn

SpecThreads == InitPeriodic /\ [][NextThreads]_vars

\* ------------------------------------------------------- engine registry
\* Callers ask get_sync_service for engines, in any order.
NextService == \E u \in Owners, r \in Roots : get_sync_service(u, r)

SpecService == Init /\ [][NextService]_vars

\* ------------------------------------------------------- command surface
\* One run of the engine process with every command of the engine called in
\* any order between operations: passes, retry_failed_downloads,
\* get_sync_status, enable_sync and disable_sync.
NextCommands ==
    \/ \E p \in UploadPaths : Upload(p)
    \/ enable_sync
    \/ disable_sync
    \/ get_sync_status
    \/ PassStart
    \/ \E ok \in BOOLEAN : PassFetched(ok)
    \/ \E i \in 1..Len(task), exc \in BOOLEAN : TaskStart(i, exc, "ok")
    \/ \E i \in 1..Len(task), ok \in BOOLEAN : DownloadDone(i, ok, "ok")
    \/ \E i \in 1..Len(task) : NotifyDone(i, TRUE)
    \/ PassGathered("ok")
    \/ PassReturn(TRUE)
    \/ RetryStart
    \/ \E ok \in BOOLEAN, exc \in BOOLEAN : RetryFetched(ok, exc, "ok")
    \/ \E ok \in BOOLEAN : RetryDownloaded(ok, "ok")
    \/ RetryNotified(TRUE)

SpecCommands == Init /\ [][NextCommands]_vars

\* ------------------------------------------------------- deleted files
\* One engine whose catalog owner also deletes files (and may upload them
\* again), up to the return of its first pass that ran transfers.
NextDelete ==
    \/ \E p \in UploadPaths : UploadFile(p, SourceSize(p), MaxCatalog)
    \/ \E p \in UploadPaths : DeleteFile(p)
    \/ (sync_state.last_sync = NoTime /\ PassStart)
    \/ \E ok \in BOOLEAN : PassFetched(ok)
    \/ \E i \in 1..Len(task) : TaskStart(i, FALSE, "ok")
    \/ \E i \in 1..Len(task), ok \in BOOLEAN : DownloadDone(i, ok, "ok")
    \/ \E i \in 1..Len(task) : NotifyDone(i, TRUE)
    \/ PassGathered("ok")
    \/ PassReturn(TRUE)

SpecDelete == Init /\ [][NextDelete]_vars

\* ------------------------------------------------------- pass termination
\* One pass over a catalog that lists more files than there are slots, with
\* any task raising, any download failing and any notification undelivered.
\* The steps of a started pass are taken: the event loop runs every task that
\* can run, and every awaited request ends (it returns, fails or times out).
PassStep ==
    \/ \E ok \in BOOLEAN : PassFetched(ok)
    \/ \E i \in 1..Len(task), exc \in BOOLEAN : TaskStart(i, exc, "ok")
    \/ \E i \in 1..Len(task), ok \in BOOLEAN : DownloadDone(i, ok, "ok")
    \/ \E i \in 1..Len(task), d \in BOOLEAN : NotifyDone(i, d)
    \/ PassGathered("ok")
    \/ \E d \in BOOLEAN : PassReturn(d)

NextLive ==
    \/ (sync_state.last_sync = NoTime /\ PassStart)
    \/ PassStep

SpecLive == InitBurst /\ [][NextLive]_vars /\ WF_vars(PassStep)

\* ------------------------------------------------------- storage service
\* The storage service alone, with any of its backends configured: files are
\* uploaded (a path may be uploaded again, with other content), downloaded to
\* their local destination, and the destination changes by other hands.
UploadSizes(p) == LocalSizes(p) \ {Absent}

InitCatalog ==
    /\ services = NoServices
    /\ manual = NoManual
    /\ storage_type \in Backends
    /\ objects = [p \in Paths |-> Absent]
    /\ loop = "off"
    /\ metadata = << >>
    /\ localFiles = [p \in Paths |-> Absent]
    /\ sync_state = EmptyState
    /\ disk = NoFile
    /\ sync_enabled = TRUE
    /\ max_concurrent_downloads = DefaultMaxConcurrent
    /\ pc = "idle"
    /\ files_to_sync = << >>
    /\ task = << >>
    /\ retry = NoRetry
    /\ result = NoResult
    /\ events = NoEvents
    /\ hist = NoHist

NextCatalog ==
    \/ \E p \in UploadPaths : \E size \in UploadSizes(p) :
           UploadFile(p, size, MaxCatalog)
    \/ \E p \in UploadPaths : \E s \in LocalSizes(p) : LocalChange(p, s)
    \/ \E p \in Paths : \E ok \in BOOLEAN : DownloadFile(p, ok)

SpecCatalog == InitCatalog /\ [][NextCatalog]_vars

\* ------------------------------------------------------- re-uploaded files
\* One engine whose uploader may upload a path again (the monitor sees the
\* same file twice), up to the return of its first pass that ran transfers.
\* The local directories can be created.
NextReupload ==
    \/ \E p \in UploadPaths : UploadFile(p, SourceSize(p), MaxCatalog)
    \/ (sync_state.last_sync = NoTime /\ PassStart)
    \/ \E ok \in BOOLEAN : PassFetched(ok)
    \/ \E i \in 1..Len(task) : TaskStart(i, FALSE, "ok")
    \/ \E i \in 1..Len(task), ok \in BOOLEAN : DownloadDone(i, ok, "ok")
    \/ \E i \in 1..Len(task) : NotifyDone(i, TRUE)
    \/ PassGathered("ok")
    \/ PassReturn(TRUE)

SpecReupload == Init /\ [][NextReupload]_vars


\* ------------------------------------------------------- properties

TypeOK ==
    /\ services.global \in {NoEngine} \cup {Engine(u, r) : u \in Owners, r \in Roots}
    /\ manual.pc \in {"off", "fetching", "running", "completing", "returned"}
    /\ Len(manual.task) = Len(manual.plan)
    /\ storage_type \in Backends
    /\ objects \in [Paths -> Sizes \cup {Absent}]
    /\ loop \in LoopPcs
    /\ \A i \in 1..Len(metadata) : metadata[i] \in FileRecord
    /\ Len(task) = Len(files_to_sync)
    /\ pc \in {"idle", "fetching", "running", "completing",
               "retry_fetch", "retry_download", "retry_notify"}

\* C1: during a pass at most max_concurrent_downloads tasks are inside
\* sync_file, and a waiting task leaves the queue only when a slot is free.
C1_ConcurrencyBound ==
    /\ [](Cardinality(InFlight) <= max_concurrent_downloads)
    /\ [][\A i \in 1..Len(task) :
             (i <= Len(task') /\ task[i].pc = "waiting" /\ task'[i].pc # "waiting")
                 => Cardinality(InFlight) < max_concurrent_downloads]_vars

\* more tasks than slots: every slot is taken and a task is waiting
C1_Witness ==
    /\ Len(task) > max_concurrent_downloads
    /\ Cardinality(InFlight) = max_concurrent_downloads
    /\ \E i \in 1..Len(task) : task[i].pc = "waiting"

\* C2: no remote_path is a key of both synced_files and failed_downloads.
C2_SyncedFailedDisjoint ==
    SyncedKeys(sync_state) \cap FailedKeys(sync_state) = {}

\* C3: total_synced equals the number of keys of synced_files.
C3_TotalSyncedIsCount ==
    sync_state.total_synced = Cardinality(SyncedKeys(sync_state))

RECURSIVE SumSizes(_, _)
SumSizes(st, S) ==
    IF S = {} THEN 0
    ELSE LET p == CHOOSE q \in S : TRUE
         IN  st.synced_files[p] + SumSizes(st, S \ {p})

\* C4: total_size equals the sum of the sizes recorded in synced_files.
C4_TotalSizeIsSum ==
    sync_state.total_size = SumSizes(sync_state, SyncedKeys(sync_state))

\* C5: retry_count never exceeds 3.
C5_RetryCap ==
    \A p \in Paths : RetryCount(sync_state, p) <= RetryLimit

\* C6: what load returns never loses a synced_files entry that the state file
\* held, whatever happens to the process.
C6_CrashSafe ==
    [][SyncedKeys(load_sync_state(disk)) \subseteq
           SyncedKeys(load_sync_state(disk'))]_vars

\* C7: a pass whose catalog read failed returns status error.
C7_FetchFailureIsError ==
    (pc = "idle" /\ result.op = "pass" /\ hist.fetch = "failed")
        => result.status = "error"

\* C8: a pass whose catalog read fails returns at once, having started no
\* transfer, pushed no event and changed neither the state nor the state file.
C8_FailedFetchNoEffect ==
    [][/\ (pc = "idle" /\ pc' = "fetching")
            => (events' = NoEvents /\ UNCHANGED <<sync_state, disk, localFiles>>)
       /\ (pc = "fetching" /\ hist'.fetch = "failed")
            => (/\ pc' = "idle"
                /\ task' = << >>
                /\ files_to_sync' = << >>
                /\ UNCHANGED <<sync_state, disk, localFiles, events>>)]_vars

\* the catalog read failed while the catalog listed a file not yet synced
C8_Witness ==
    /\ pc = "idle"
    /\ result.op = "pass"
    /\ hist.fetch = "failed"
    /\ ~AllListedSynced(metadata, sync_state)
    /\ events = NoEvents

Transferred == {i \in 1..Len(task) : task[i].get}

\* the step in which sync_all_files returns its summary
PassReturns == pc = "completing" /\ pc' = "idle" /\ result'.op = "pass"

\* C11: a pass all of whose tasks succeed returns total_files and successful
\* equal to the number of files it transferred (files settled by the local
\* recheck are not counted) and failed 0, and leaves every planned file in
\* synced_files.
C11_EndToEndSuccess ==
    [][(PassReturns /\ \A i \in 1..Len(task) : task[i].ok)
          => (/\ result'.total = Cardinality(Transferred)
              /\ result'.successful = Cardinality(Transferred)
              /\ result'.failed = 0
              /\ \A i \in 1..Len(task) :
                     files_to_sync[i].cloud_path \in SyncedKeys(sync_state'))]_vars

\* C12: when a pass is about to return, every task it counts as failed has a
\* failed_downloads entry with retry_count >= 1 and is not in synced_files.
C12_FailedTaskRecorded ==
    pc = "completing"
        => \A i \in 1..Len(task) :
               ~task[i].ok
                   => (/\ RetryCount(sync_state, files_to_sync[i].cloud_path) >= 1
                       /\ files_to_sync[i].cloud_path \notin SyncedKeys(sync_state))

\* the step in which download_file returns False for remote_path p
DownloadFails(p) ==
    \/ \E i \in 1..Len(task) :
           /\ i <= Len(task')
           /\ files_to_sync[i].cloud_path = p
           /\ task[i].pc = "downloading"
           /\ task'[i].pc = "done"
    \/ /\ pc = "retry_download"
       /\ sync_state.failed_downloads[retry.pos].cloud_path = p
       /\ pc' = "retry_fetch" \/ (pc' = "idle" /\ result'.op = "retry")

\* C13: a failed transfer sets retry_count to its previous value plus 1, a
\* step that records the file in synced_files leaves it without a
\* failed_downloads entry (so the next failure counts from 1), and nothing
\* else changes a retry_count.
C13_RetryCountStep ==
    [][\A p \in Paths :
          LET a == RetryCount(sync_state, p)
              b == RetryCount(sync_state', p)
          IN  /\ b \in {a, a + 1, 0}
              /\ DownloadFails(p) <=> (b = a + 1)
              /\ (p \notin SyncedKeys(sync_state) /\ p \in SyncedKeys(sync_state'))
                     => b = 0]_vars

\* where retry_failed_downloads can be suspended
RetryPcs == {"retry_fetch", "retry_download", "retry_notify"}

\* a step after which retry_failed_downloads is running or has just returned
RetryRuns == pc' \in RetryPcs \/ (pc' = "idle" /\ result'.op = "retry")

\* C14: retry_failed_downloads never fetches or transfers for an entry whose
\* retry_count is 3 or more, and leaves every such entry as it was.
C14_SkipsCapped ==
    /\ [](pc \in {"retry_fetch", "retry_download"}
             => sync_state.failed_downloads[retry.pos].retry_count < RetryLimit)
    /\ [][RetryRuns
             => \A p \in Paths :
                    RetryCount(sync_state, p) >= RetryLimit
                        => (/\ RetryCount(sync_state', p) = RetryCount(sync_state, p)
                            /\ p \in FailedKeys(sync_state'))]_vars

\* retry_failed_downloads returned, having passed over an entry that is at 3
C14_Witness ==
    /\ pc = "idle"
    /\ result.op = "retry"
    /\ result.status = "completed"
    /\ result.total = 0
    /\ \E p \in Paths : RetryCount(sync_state, p) = RetryLimit

\* C15: retry_failed_downloads returns a completed result (or
\* no_failed_downloads when there is nothing to retry), also when a retried
\* transfer succeeded.
C15_RetryReturns ==
    (pc = "idle" /\ result.op = "retry")
        => result.status \in {"completed", "no_failed_downloads"}

\* tasks of the running pass for which sync_file returned True
Succeeded == {i \in 1..Len(task) : task[i].ok}

\* C16: a pass calls save_sync_state exactly once, and not before every task
\* has resolved.
C16_PersistOnce ==
    /\ pc = "running" => hist.saves = 0
    /\ pc = "completing" => hist.saves = 1

\* C17: file_synced is pushed only for a file already recorded in
\* synced_files, and when every task has resolved the pass has pushed as many
\* file_synced events as it has tasks that ended in success.
C17_FileSyncedPerSuccess ==
    /\ \A i \in 1..Len(task) :
           task[i].pc = "notifying"
               => files_to_sync[i].cloud_path \in SyncedKeys(sync_state)
    /\ pc = "completing" => events.file_synced = Cardinality(Succeeded)

\* C18: a pass that ran a plan pushes sync_completed exactly once, when it
\* returns: every task has resolved, the state file holds the state, the
\* counts are those of the tasks and are the ones returned, with status
\* completed.
C18_SyncCompletedOnce ==
    /\ [](pc \in {"fetching", "running", "completing"}
             => events.sync_completed = 0)
    /\ []((pc = "idle" /\ result.op = "pass")
             => /\ (result.status = "completed") <=> (events.sync_completed = 1)
                /\ events.sync_completed <= 1
                /\ result.status = "completed"
                       => (/\ result.total >= 1
                           /\ result.successful + result.failed = result.total))
    /\ [][(pc \in {"running", "completing"} /\ pc' = "idle"
              /\ result'.op = "pass")
             => (/\ pc = "completing"
                 /\ \A i \in 1..Len(task) : task[i].pc = "done"
                 /\ disk = save_sync_state(sync_state)
                 /\ sync_state.last_sync # NoTime
                 /\ result'.status = "completed"
                 /\ result'.total = Len(files_to_sync)
                 /\ result'.successful = Cardinality(Succeeded)
                 /\ events'.sync_completed = 1)]_vars

\* a pass returned completed after a transfer that succeeded
C18_Witness ==
    /\ pc = "idle"
    /\ result.op = "pass"
    /\ result.status = "completed"
    /\ result.successful >= 1
    /\ events.sync_completed = 1
    /\ events.file_synced >= 1

\* the engine has just been constructed: no operation has run since __init__
JustConstructed == pc = "idle" /\ result = NoResult

\* C19: construction always ends with a state loaded: the content of the
\* state file when it is readable, the empty state when the file is missing
\* or cannot be parsed.
C19_LoadNeverFails ==
    JustConstructed
        => sync_state = (IF disk.kind = "ok" THEN disk.data ELSE EmptyState)

\* the engine was constructed over a state file that cannot be parsed
C19_Witness ==
    /\ JustConstructed
    /\ disk.kind = "torn"
    /\ sync_state = EmptyState
    /\ metadata # << >>

\* C20: a pass in which a write of the state file failed keeps every outcome
\* in memory and returns its completed result with the counts of its tasks.
C20_WriteFailureSwallowed ==
    /\ []((pc = "completing" /\ hist.wfail)
             => /\ sync_state.last_sync # NoTime
                /\ \A i \in 1..Len(task) :
                       LET p == files_to_sync[i].cloud_path
                       IN  /\ (task[i].ok /\ task[i].checked)
                               => p \in SyncedKeys(sync_state)
                           /\ (~task[i].ok /\ task[i].get)
                               => p \in FailedKeys(sync_state)
                                      \cup SyncedKeys(sync_state))
    /\ []((pc = "idle" /\ result.op = "pass" /\ hist.wfail)
             => /\ result.status = "completed"
                /\ result.successful + result.failed = result.total)
    /\ [][(pc \in {"running", "completing"} /\ pc' = "idle"
              /\ result'.op = "pass")
             => (/\ result'.status = "completed"
                 /\ result'.total = Len(files_to_sync)
                 /\ result'.successful = Cardinality(Succeeded)
                 /\ UNCHANGED sync_state)]_vars

\* a pass returned completed with a success the state file does not hold
C20_Witness ==
    /\ pc = "idle"
    /\ result.op = "pass"
    /\ result.status = "completed"
    /\ result.successful >= 1
    /\ hist.wfail
    /\ disk.kind # "ok"
    /\ SyncedKeys(sync_state) # {}

\* C21: a notification is posted once whether or not it is delivered; a
\* delivery failure leaves the state, the state file and the task's True
\* result as they are, and the pass returns completed with its counts.
C21_NotifyFailureSwallowed ==
    /\ [][\A i \in 1..Len(task) :
             (i <= Len(task') /\ task[i].pc = "notifying" /\ task'[i].pc = "done")
                 => (/\ task'[i].ok
                     /\ events'.file_synced = events.file_synced + 1
                     /\ UNCHANGED <<sync_state, disk, localFiles>>)]_vars
    /\ [][(pc = "completing" /\ pc' = "idle")
             => (/\ result'.status = "completed"
                 /\ result'.total = Len(files_to_sync)
                 /\ result'.successful = Cardinality(Succeeded)
                 /\ events'.sync_completed = events.sync_completed + 1
                 /\ UNCHANGED <<sync_state, disk, localFiles>>)]_vars
    /\ []((pc = "idle" /\ result.op = "pass" /\ hist.nfail)
             => result.status = "completed")

\* a pass returned completed although a notification of it was not delivered
C21_Witness ==
    /\ pc = "idle"
    /\ result.op = "pass"
    /\ result.status = "completed"
    /\ result.successful >= 1
    /\ events.file_synced >= 1
    /\ hist.nfail

\* where sync_all_files can be suspended
PassPcs == {"fetching", "running", "completing"}

\* some step of the running pass can be taken
PassCanStep ==
    \/ \E ok \in BOOLEAN : ENABLED PassFetched(ok)
    \/ \E i \in 1..Len(task) : ENABLED TaskStart(i, FALSE, "ok")
    \/ \E i \in 1..Len(task) : ENABLED DownloadDone(i, TRUE, "ok")
    \/ \E i \in 1..Len(task) : ENABLED NotifyDone(i, TRUE)
    \/ ENABLED PassGathered("ok")
    \/ ENABLED PassReturn(TRUE)

Unsynced == {i \in 1..Len(metadata) :
                metadata[i].cloud_path \notin SyncedKeys(sync_state)}

\* the step in which get_cloud_files returns, having read the catalog
PlanMade == pc = "fetching" /\ hist'.fetch = "ok"

\* the step in which get_cloud_files returns (the catalog read or not)
FetchEnds == pc = "fetching" /\ hist'.fetch # "none"

\* C27: the plan made from a catalog that was read holds every record whose
\* cloud_path is not in synced_files, failed before or not, in catalog order,
\* and no record whose cloud_path is in synced_files.
C27_PlanIsUnsynced ==
    [][PlanMade
          => (/\ Len(files_to_sync') = Cardinality(Unsynced)
              /\ \A i \in 1..Len(metadata) :
                     (i \in Unsynced)
                         <=> (\E k \in 1..Len(files_to_sync') :
                                 /\ files_to_sync'[k] = metadata[i]
                                 /\ k = Cardinality({j \in Unsynced : j <= i}))
              /\ \A k \in 1..Len(files_to_sync') :
                     files_to_sync'[k].cloud_path \notin SyncedKeys(sync_state))]_vars

\* a pass planned a file that has a failed_downloads entry
C27_Witness ==
    /\ pc = "running"
    /\ \E k \in 1..Len(files_to_sync) :
           files_to_sync[k].cloud_path \in FailedKeys(sync_state)
    /\ \A i \in 1..Len(task) : task[i].pc = "waiting"

\* C28: a pass whose plan is empty returns no_new_files in the step that made
\* the plan: no task, no event, no write of the state file, and the state,
\* last_sync included, as it was.
C28_EmptyPlanNoEffect ==
    [][(FetchEnds /\ (hist'.fetch = "failed" \/ Unsynced = {}))
          => (/\ pc' = "idle"
              /\ result' = PassResult("no_new_files", 0, 0)
              /\ task' = << >>
              /\ files_to_sync' = << >>
              /\ events' = NoEvents
              /\ hist'.saves = 0
              /\ UNCHANGED <<sync_state, disk, localFiles>>)]_vars

\* a pass found every listed file synced and returned no_new_files
C28_Witness ==
    /\ pc = "idle"
    /\ result = PassResult("no_new_files", 0, 0)
    /\ hist.fetch = "ok"
    /\ metadata # << >>
    /\ sync_state.last_sync # NoTime

\* the step in which download_file is called for remote_path p
StartsDownload(p) ==
    \/ \E i \in 1..Len(task) :
           /\ i <= Len(task')
           /\ files_to_sync[i].cloud_path = p
           /\ ~task[i].get
           /\ task'[i].get
    \/ /\ pc = "retry_fetch"
       /\ pc' = "retry_download"
       /\ sync_state.failed_downloads[retry.pos].cloud_path = p

\* C30: while the engine runs, a remote_path in synced_files stays there, no
\* download is started for it and total_synced is not raised again.
C30_SyncedAbsorbing ==
    [][(pc' # "idle" \/ result' # NoResult)
          => /\ SyncedKeys(sync_state) \subseteq SyncedKeys(sync_state')
             /\ \A p \in SyncedKeys(sync_state) : ~StartsDownload(p)
             /\ SyncedKeys(sync_state') = SyncedKeys(sync_state)
                    => sync_state'.total_synced = sync_state.total_synced]_vars

\* C24: the catalog holds at most one record per cloud_path, whatever files
\* were uploaded: uploading a path again replaces its record.
C24_OneRecordPerPath ==
    \A i, j \in 1..Len(ListUserFiles(metadata, storage_type)) :
        metadata[i].cloud_path = metadata[j].cloud_path => i = j

\* an upload of p that returned True (any content)
UploadReturnsTrue(p) == \E size \in UploadSizes(p) : UploadFile(p, size, MaxCatalog)

\* C25: after upload_file returned True for a file, get_user_files holds a
\* record with its cloud_path, with every backend.
C25_UploadedIsListed ==
    [][\A p \in Paths :
          UploadReturnsTrue(p)
              => \E i \in 1..Len(ListUserFiles(metadata', storage_type')) :
                     ListUserFiles(metadata', storage_type')[i].cloud_path = p]_vars

IterationStarts == loop = "ready" /\ loop' # "ready"

\* C22: the periodic loop never ends; from every sleep, the cooldown after
\* an exception included, it comes back to start a further iteration; and an
\* iteration that starts while sync is enabled runs a pass.
C22_LoopGoesOn ==
    /\ [](loop # "off")
    /\ (loop \in {"in_pass", "sleeping", "skipped", "cooldown"}) ~> (loop = "ready")
    /\ (loop = "ready") ~> (loop # "ready")
    /\ [][(IterationStarts /\ sync_enabled)
             => (loop' = "in_pass" /\ pc' = "fetching")]_vars

\* an iteration whose pass ran has ended in the except clause of the loop
C22_Witness ==
    /\ loop = "cooldown"
    /\ sync_enabled
    /\ sync_state.last_sync # NoTime

TaskPath(i) == files_to_sync[i].cloud_path

\* C31: the tasks of a pass have pairwise different cloud_paths (hence local
\* destinations), and no two transfers in flight are for the same path.
C31_TasksDistinct ==
    /\ \A i, j \in 1..Len(files_to_sync) : TaskPath(i) = TaskPath(j) => i = j
    /\ \A i, j \in InFlight : TaskPath(i) = TaskPath(j) => i = j

\* C32: when all tasks of a pass have ended, the state is the union of their
\* outcomes whatever the order they ended in: the path of every task that
\* returned True is in synced_files, the path of every task that returned
\* False is in failed_downloads.
C32_UnionOfOutcomes ==
    pc = "completing"
        => \A i \in 1..Len(task) :
               /\ task[i].ok => TaskPath(i) \in SyncedKeys(sync_state)
               /\ ~task[i].ok => TaskPath(i) \in FailedKeys(sync_state)

\* C33: while a task of the sync_now thread is inside its update of the sync
\* state (entry stored, counters and file not yet written) the other thread
\* changes neither the state nor the file, and the counter the task stores
\* is one more than the counter holds at that moment.
C33_MutationsExclusive ==
    /\ [][(ManualMutating /\ manual' = manual)
             => UNCHANGED <<sync_state, disk>>]_vars
    /\ [][\A i \in 1..Len(manual.task) :
             (manual.task[i].pc = "counting" /\ manual'.task[i].pc = "saving")
                 => sync_state.total_synced = manual.task[i].seen]_vars

\* C36: get_sync_service returns an engine of the owner and root asked for,
\* and constructs at most one engine for a pair.
C36_OneEnginePerPair ==
    /\ services.returned = services.asked
    /\ \A e \in Owners \X Roots : services.created[e] <= 1

\* C34: at every suspension point (and between operations) the state file
\* holds the in-memory state: every outcome was written in the step that
\* recorded it.  Before the first write there is no usable file and the state
\* is the empty one.
C34_PersistedIsMemory ==
    /\ disk.kind = "ok" => disk.data = sync_state
    /\ disk.kind # "ok" => sync_state = EmptyState

\* a task is suspended in its notification after its download was recorded,
\* in a pass that follows passes with recorded outcomes
C34_Witness ==
    /\ pc = "running"
    /\ \E i \in 1..Len(task) : task[i].pc = "notifying"
    /\ sync_state.last_sync # NoTime
    /\ sync_state.total_synced > 0
    /\ disk.kind = "ok"

\* C38: last_sync changes only in the step of a pass with a non-empty plan
\* in which all its tasks have ended (lines 235-236); no other step of a
\* pass, of retry_failed_downloads or of the commands changes it, and
\* get_sync_status changes neither the sync state nor its file.
C38_LastSyncFrame ==
    /\ [][sync_state'.last_sync # sync_state.last_sync
             => /\ pc = "running" /\ pc' = "completing"
                /\ files_to_sync # << >>
                /\ \A i \in 1..Len(task) : task[i].pc = "done"]_vars
    /\ [][(result'.op = "status" /\ result' # result)
             => UNCHANGED <<sync_state, disk>>]_vars
    /\ [][(result'.op \in {"pass", "retry"} /\ result' # result
              /\ result'.status # "completed")
             => sync_state'.last_sync = sync_state.last_sync]_vars
    /\ [][result'.op = "retry" => sync_state'.last_sync = sync_state.last_sync]_vars

\* a call of retry_failed_downloads has synced a file and returned, and
\* get_sync_status is called after it: last_sync is that of the last pass
C38_Witness ==
    /\ result.op = "status"
    /\ result.last_sync = sync_state.last_sync
    /\ sync_state.last_sync # NoTime
    /\ sync_state.total_synced > 0
    /\ sync_state.failed_downloads = << >>
    /\ hist.prev = "dirty"

\* C35: a started pass returns a result; every task of its plan that waits
\* for a slot gets one.
C35_PassTerminates ==
    /\ (pc # "idle") ~> (pc = "idle" /\ result.op = "pass")
    /\ \A i \in 1..BurstFiles :
          (pc = "running" /\ task[i].pc = "waiting")
              ~> (pc = "running" /\ task[i].pc # "waiting")

\* a pass with more tasks than slots has returned although tasks failed and
\* a notification was not delivered
C35_Witness ==
    /\ pc = "idle"
    /\ result.op = "pass" /\ result.status = "completed"
    /\ result.total > max_concurrent_downloads
    /\ result.failed > 0
    /\ events.file_synced > 0
    /\ hist.nfail

\* C37: every record the catalog lists is for an object the store holds,
\* and no task of a pass is for a deleted object.
C37_ListedIsStored ==
    /\ \A i \in 1..Len(ListUserFiles(metadata, storage_type)) :
          objects[ListUserFiles(metadata, storage_type)[i].cloud_path] # Absent
    /\ \A i \in 1..Len(files_to_sync) : objects[TaskPath(i)] # Absent

====
